---------------------------- MODULE Spec2Model ----------------------------
(***************************************************************************)
(* Model of pagespeed-simple: the client page (handleSubmit,               *)
(* mergeRecommendations, getSavingsMs), the /api/pagespeed route           *)
(* (fetchPageSpeed, extractResult, POST) and the /api/analyze route        *)
(* (analyzePageSpeed, POST).                                               *)
(*                                                                         *)
(* Representation.  A JavaScript string is a sequence of one-character     *)
(* strings.  A JavaScript number is a record [k, num, den]: k = "fin" is   *)
(* the decimal num/den (den a power of ten, kept in lowest such form),     *)
(* k = "inf"/"ninf" are +/-Infinity, k = "nan" is NaN; k = "absent" is     *)
(* undefined and k = "null" is null.  Decimal arithmetic is exact: the     *)
(* rounding error of binary floating point is not modelled.                *)
(***************************************************************************)
EXTENDS Integers, Sequences, FiniteSets, TLC

VARIABLES
    sItem, sOut,                       \* getSavingsMs: argument, result
    mobile, desktop, merged,           \* mergeRecommendations: arguments, result
    payload, extracted, analyzed,      \* extractResult / analyzePageSpeed
    \* One inbound POST: the route it came to, its body, whether the API key is
    \* set, the handler's place, the two upstream calls, the Promise.all over
    \* them, the upstream requests issued, the responses sent
    route, body, envKey, hpc, fetchSt, promiseAll, issued, responses,
    \* HomePage: its state hooks, the place of handleSubmit, the reply its
    \* fetch is waiting for, the submissions handled
    email, url, loading, error, result, cpc, reply, submits

savingsVars == <<sItem, sOut>>
mergeVars   == <<mobile, desktop, merged>>
extractVars == <<payload, extracted, analyzed>>
serverVars  == <<route, body, envKey, hpc, fetchSt, promiseAll, issued, responses>>
clientVars  == <<email, url, loading, error, result, cpc, reply, submits>>
vars == <<savingsVars, mergeVars, extractVars, serverVars, clientVars>>

-----------------------------------------------------------------------------
(* Bounds *)

\* Longest savings string enumerated character by character.
MaxStrLen == 4
MaxSubmits == 3

-----------------------------------------------------------------------------
(* JavaScript numbers *)

Fin(n, d) == [k |-> "fin", num |-> n, den |-> d]
Zero      == Fin(0, 1)
PosInf    == [k |-> "inf", num |-> 0, den |-> 1]
NegInf    == [k |-> "ninf", num |-> 0, den |-> 1]
NaN       == [k |-> "nan", num |-> 0, den |-> 1]
Undefined == [k |-> "absent", num |-> 0, den |-> 1]
Null      == [k |-> "null", num |-> 0, den |-> 1]

\* No value yet
NoNum     == [k |-> "none", num |-> 0, den |-> 1]

\* typeof x === "number"
IsNumber(x) == x.k \in {"fin", "inf", "ninf", "nan"}

\* Number.isFinite(x)
IsFinite(x) == x.k = "fin"

RECURSIVE Pow10(_)
Pow10(n) == IF n = 0 THEN 1 ELSE 10 * Pow10(n - 1)

\* The decimal n/d with trailing zeros of the fraction removed.
RECURSIVE Norm(_, _)
Norm(n, d) == IF d > 1 /\ n % 10 = 0 THEN Norm(n \div 10, d \div 10) ELSE Fin(n, d)

\* value * 1000 on a finite number
Times1000(x) == Norm(x.num * 1000, x.den)

\* a - b is NaN
IsNaNDifference(a, b) ==
    \/ a.k = "nan" \/ b.k = "nan"
    \/ a.k = b.k /\ a.k \in {"inf", "ninf"}

\* The sign of a - b for numbers a, b as a sort comparator's result is read:
\* 1, -1 or 0, and 0 when a - b is NaN.
SubSign(a, b) ==
    IF IsNaNDifference(a, b) THEN 0
    ELSE IF a.k = "inf" \/ b.k = "ninf" THEN 1
    ELSE IF a.k = "ninf" \/ b.k = "inf" THEN -1
    ELSE LET l == a.num * b.den
             r == b.num * a.den
         IN IF l > r THEN 1 ELSE IF l < r THEN -1 ELSE 0

\* a > b
Greater(a, b) == a.k # "nan" /\ b.k # "nan" /\ SubSign(a, b) = 1

\* a >= b
GreaterEq(a, b) == a.k # "nan" /\ b.k # "nan" /\ SubSign(a, b) \in {0, 1}

-----------------------------------------------------------------------------
(* JavaScript strings *)

Digits == {"0", "1", "2", "3", "4", "5", "6", "7", "8", "9"}

DigitVal ==
    ("0" :> 0) @@ ("1" :> 1) @@ ("2" :> 2) @@ ("3" :> 3) @@ ("4" :> 4) @@
    ("5" :> 5) @@ ("6" :> 6) @@ ("7" :> 7) @@ ("8" :> 8) @@ ("9" :> 9)

\* The character class [\d.]
DigitDot == Digits \cup {"."}

Str(s)     == [has |-> TRUE, str |-> s]
NoStr      == [has |-> FALSE, str |-> <<>>]

\* String.prototype.replace(",", "."): the first comma only
RECURSIVE ReplaceFirstComma(_)
ReplaceFirstComma(s) ==
    IF s = <<>> THEN <<>>
    ELSE IF Head(s) = "," THEN <<".">> \o Tail(s)
    ELSE <<Head(s)>> \o ReplaceFirstComma(Tail(s))

LowerChar(c) ==
    CASE c = "S" -> "s"
      [] c = "M" -> "m"
      [] c = "H" -> "h"
      [] c = "T" -> "t"
      [] c = "P" -> "p"
      [] c = "X" -> "x"
      [] OTHER -> c

\* String.prototype.toLowerCase()
RECURSIVE ToLowerCase(_)
ToLowerCase(s) ==
    IF s = <<>> THEN <<>> ELSE <<LowerChar(Head(s))>> \o ToLowerCase(Tail(s))

\* The longest prefix of s made of [\d.] characters.
RECURSIVE TakeRun(_)
TakeRun(s) ==
    IF s = <<>> \/ Head(s) \notin DigitDot THEN <<>>
    ELSE <<Head(s)>> \o TakeRun(Tail(s))

\* normalized.match(/([\d.]+)/): the leftmost, longest run; <<>> when null
RECURSIVE Match(_)
Match(s) ==
    IF s = <<>> THEN <<>>
    ELSE IF Head(s) \in DigitDot THEN TakeRun(s)
    ELSE Match(Tail(s))

\* String.prototype.includes(t)
Includes(s, t) ==
    \E i \in 1..(Len(s) - Len(t) + 1) : SubSeq(s, i, i + Len(t) - 1) = t

RECURSIVE DigitsValue(_, _)
DigitsValue(run, acc) ==
    IF run = <<>> THEN acc
    ELSE IF Head(run) = "." THEN DigitsValue(Tail(run), acc)
    ELSE DigitsValue(Tail(run), 10 * acc + DigitVal[Head(run)])

\* Number(run) for a run of [\d.] characters: a decimal literal has at most
\* one period and at least one digit; anything else is NaN.
Number(run) ==
    LET dots   == {i \in 1..Len(run) : run[i] = "."}
        digits == {i \in 1..Len(run) : run[i] \in Digits}
    IN IF Cardinality(dots) > 1 \/ digits = {} THEN NaN
       ELSE LET frac == IF dots = {} THEN 0
                        ELSE Len(run) - (CHOOSE i \in dots : TRUE)
            IN Norm(DigitsValue(run, 0), Pow10(frac))

-----------------------------------------------------------------------------
(* getSavingsMs *)

\* As Normalize, but every comma is replaced (String.prototype.replaceAll).
NormalizeAllCommas(s) ==
    ToLowerCase([i \in 1..Len(s) |-> IF s[i] = "," THEN "." ELSE s[i]])

\* item.savings.replace(",", ".").toLowerCase()
Normalize(s) == ToLowerCase(ReplaceFirstComma(s))

getSavingsMs(item) ==
    IF IsNumber(item.savingsMs) THEN item.savingsMs
    ELSE IF ~item.savings.has \/ item.savings.str = <<>> THEN Zero
    ELSE LET normalized == Normalize(item.savings.str)
             match      == Match(normalized)
         IN IF match = <<>> THEN Zero
            ELSE LET value == Number(match)
                 IN IF ~IsFinite(value) THEN Zero
                    ELSE IF Includes(normalized, <<"m", "s">>) THEN value
                    ELSE IF Includes(normalized, <<"s">>) THEN Times1000(value)
                    ELSE value

-----------------------------------------------------------------------------
(* mergeRecommendations *)

\* RecommendationItem (part_000:12-17)
Item(t, d, ms, sv) == [title |-> t, description |-> d, savingsMs |-> ms, savings |-> sv]

\* Length of the merged list: .slice(0, 5)
TopN == 5

\* Recommendations per strategy the routes return: .slice(0, 3)
RecsPerStrategy == 3

\* byTitle.get(title): the index of the entry with that key, 0 when none.
\* The Map is the sequence of its values in insertion order.
IndexOfTitle(byTitle, title) ==
    IF \E i \in 1..Len(byTitle) : byTitle[i].title = title
    THEN CHOOSE i \in 1..Len(byTitle) : byTitle[i].title = title
    ELSE 0

\* As SetIfGreater, but a tie replaces the stored item too (>= for >).
SetIfGreaterOrEqual(byTitle, item) ==
    LET i == IndexOfTitle(byTitle, item.title)
    IN IF i = 0 THEN Append(byTitle, item)
       ELSE IF GreaterEq(getSavingsMs(item), getSavingsMs(byTitle[i]))
            THEN [byTitle EXCEPT ![i] = item]
            ELSE byTitle

\* The body of the forEach callback: one item against the Map.
SetIfGreater(byTitle, item) ==
    LET i == IndexOfTitle(byTitle, item.title)
    IN IF i = 0 THEN Append(byTitle, item)
       ELSE IF Greater(getSavingsMs(item), getSavingsMs(byTitle[i]))
            THEN [byTitle EXCEPT ![i] = item]
            ELSE byTitle

\* [...mobile, ...desktop].forEach(...)
RECURSIVE ForEachItem(_, _)
ForEachItem(items, byTitle) ==
    IF items = <<>> THEN byTitle
    ELSE ForEachItem(Tail(items), SetIfGreater(byTitle, Head(items)))

\* The comparator (a, b) => getSavingsMs(b) - getSavingsMs(a)
SortCompare(a, b) == SubSign(getSavingsMs(b), getSavingsMs(a))

\* x placed after every element of the sorted list that does not sort after it.
RECURSIVE InsertSorted(_, _)
InsertSorted(sorted, x) ==
    IF sorted = <<>> THEN <<x>>
    ELSE IF SortCompare(Head(sorted), x) > 0 THEN <<x>> \o sorted
    ELSE <<Head(sorted)>> \o InsertSorted(Tail(sorted), x)

\* As SortBySavings, but the list is left in Map order.
NoSort(list) == list

\* Array.prototype.sort with the comparator above: a stable sort.
RECURSIVE SortBySavings(_)
SortBySavings(list) ==
    IF list = <<>> THEN <<>>
    ELSE InsertSorted(SortBySavings(SubSeq(list, 1, Len(list) - 1)), list[Len(list)])

\* Array.prototype.slice(0, n)
Slice(list, n) == SubSeq(list, 1, IF Len(list) < n THEN Len(list) ELSE n)

mergeRecommendations(m, d) ==
    Slice(SortBySavings(ForEachItem(m \o d, <<>>)), TopN)

-----------------------------------------------------------------------------
(* extractResult (/api/pagespeed) and analyzePageSpeed (/api/analyze) *)

\* A payload is what response.json() gives for the upstream body:
\*   shape   "null": the JSON value null; "noLighthouse": no lighthouseResult;
\*           "noCategories": no categories; "noPerformance": no performance
\*           category; "ok": all three present
\*   score   the category's score (Undefined: absent), refs its auditRefs
\*   hasAudits, audits   lighthouseResult.audits, its entries in key order
\* An audit is [id, title, description, score, displayValue, numericValue,
\* hasDetails, overallSavingsMs]; an empty title stands for a missing one too.

METRIC_MAP ==
    [fcp |-> "first-contentful-paint", lcp |-> "largest-contentful-paint",
     tbt |-> "total-blocking-time", cls |-> "cumulative-layout-shift"]

\* The placeholder "--"
Placeholder == Str(<<"-", "-">>)

HasLighthouse(p) == p.shape \in {"noCategories", "noPerformance", "ok"}
HasCategories(p) == p.shape \in {"noPerformance", "ok"}
HasPerformance(p) == p.shape = "ok"

\* audits[id]: the index of the entry, 0 when undefined
AuditIndex(audits, id) ==
    IF \E i \in 1..Len(audits) : audits[i].id = id
    THEN CHOOSE i \in 1..Len(audits) : audits[i].id = id
    ELSE 0

\* x ?? d
Coalesce(x, d) == IF x.k \in {"absent", "null"} THEN d ELSE x

\* Math.round(x * 100): the nearest integer, a half rounded up
Round100(x) ==
    IF x.k = "fin" THEN Fin((200 * x.num + x.den) \div (2 * x.den), 1)
    ELSE IF x.k \in {"inf", "ninf"} THEN x
    ELSE IF x.k = "null" THEN Zero
    ELSE NaN

\* Math.round(x / 1000) for a finite x
RoundThousandth(x) == (2 * x.num + 1000 * x.den) \div (2000 * x.den)

\* a < b for a comparison that is false on NaN and undefined, with null as 0
LessThan(a, b) ==
    LET x == IF a.k = "null" THEN Zero ELSE a
        y == IF b.k = "null" THEN Zero ELSE b
    IN IsNumber(x) /\ IsNumber(y) /\ Greater(y, x)

One == Fin(1, 1)

\* audits[id]?.displayValue ?? "--"
DisplayOrPlaceholder(audits, id) ==
    LET i == AuditIndex(audits, id)
    IN IF i = 0 \/ ~audits[i].displayValue.has THEN Placeholder
       ELSE audits[i].displayValue

\* .filter(audit => Boolean(audit?.title)).filter(audit => (audit.score ?? 1) < 1)
\* over auditRefs.map(ref => audits[ref.id])
RECURSIVE ResolveAndFilter(_, _)
ResolveAndFilter(ids, audits) ==
    IF ids = <<>> THEN <<>>
    ELSE LET i    == AuditIndex(audits, Head(ids))
             rest == ResolveAndFilter(Tail(ids), audits)
         IN IF i # 0 /\ audits[i].title # "" /\ LessThan(Coalesce(audits[i].score, One), One)
            THEN <<audits[i]>> \o rest
            ELSE rest

\* (a, b) => (b.numericValue ?? 0) - (a.numericValue ?? 0), as the sort reads it
CompareNumericValue(a, b) ==
    SubSign(Coalesce(b.numericValue, Zero), Coalesce(a.numericValue, Zero))

RECURSIVE InsertByNumericValue(_, _)
InsertByNumericValue(sorted, x) ==
    IF sorted = <<>> THEN <<x>>
    ELSE IF CompareNumericValue(Head(sorted), x) > 0 THEN <<x>> \o sorted
    ELSE <<Head(sorted)>> \o InsertByNumericValue(Tail(sorted), x)

\* .sort(...) by numericValue, descending and stable
RECURSIVE SortByNumericValue(_)
SortByNumericValue(list) ==
    IF list = <<>> THEN <<>>
    ELSE InsertByNumericValue(SortByNumericValue(SubSeq(list, 1, Len(list) - 1)),
                              list[Len(list)])


\* The result both extractors give when the code throws.
Thrown ==
    [done |-> TRUE, ok |-> FALSE, score |-> NoNum, metrics |-> <<>>,
     recommendations |-> <<>>]

NotCalled ==
    [done |-> FALSE, ok |-> FALSE, score |-> NoNum, metrics |-> <<>>,
     recommendations |-> <<>>]

\* .map(audit => ({title, description}))
TitleAndDescription(list) ==
    [i \in 1..Len(list) |-> Item(list[i].title, list[i].description, Undefined, NoStr)]

extractResult(p) ==
    IF p.shape = "null" THEN Thrown
    ELSE LET audits == IF HasLighthouse(p) /\ p.hasAudits THEN p.audits ELSE <<>>
             score  == Round100(IF HasPerformance(p) THEN Coalesce(p.score, Zero) ELSE Zero)
             metrics ==
                 [fcp |-> DisplayOrPlaceholder(audits, METRIC_MAP.fcp),
                  lcp |-> DisplayOrPlaceholder(audits, METRIC_MAP.lcp),
                  tbt |-> DisplayOrPlaceholder(audits, METRIC_MAP.tbt),
                  cls |-> DisplayOrPlaceholder(audits, METRIC_MAP.cls)]
             recommendations ==
                 IF HasPerformance(p) /\ p.refs.has
                 THEN TitleAndDescription(
                          Slice(SortByNumericValue(ResolveAndFilter(p.refs.ids, audits)),
                                RecsPerStrategy))
                 ELSE <<>>
         IN [done |-> TRUE, ok |-> TRUE, score |-> score, metrics |-> metrics,
             recommendations |-> recommendations]

\* The ids analyzePageSpeed reads a displayValue of.
AnalyzeMetricIds ==
    [fcp |-> "first-contentful-paint", lcp |-> "largest-contentful-paint",
     tbt |-> "total-blocking-time", cls |-> "cumulative-layout-shift",
     speedIndex |-> "speed-index"]

\* The threshold of audit.details?.overallSavingsMs > 100
SavingsThreshold == 100

\* audit.details?.overallSavingsMs
OverallSavings(audit) == IF audit.hasDetails THEN audit.overallSavingsMs ELSE Undefined

\* .filter(audit => audit.score !== null && audit.score < 1
\*                  && audit.details?.overallSavingsMs > 100) over Object.values(audits)
RECURSIVE FilterOpportunities(_)
FilterOpportunities(audits) ==
    IF audits = <<>> THEN <<>>
    ELSE LET a    == Head(audits)
             rest == FilterOpportunities(Tail(audits))
         IN IF /\ a.score.k # "null"
               /\ LessThan(a.score, One)
               /\ LessThan(Fin(SavingsThreshold, 1), OverallSavings(a))
            THEN <<a>> \o rest
            ELSE rest

\* (a, b) => b.details.overallSavingsMs - a.details.overallSavingsMs
CompareOverallSavings(a, b) == SubSign(b.overallSavingsMs, a.overallSavingsMs)

RECURSIVE InsertByOverallSavings(_, _)
InsertByOverallSavings(sorted, x) ==
    IF sorted = <<>> THEN <<x>>
    ELSE IF CompareOverallSavings(Head(sorted), x) > 0 THEN <<x>> \o sorted
    ELSE <<Head(sorted)>> \o InsertByOverallSavings(Tail(sorted), x)

RECURSIVE SortByOverallSavings(_)
SortByOverallSavings(list) ==
    IF list = <<>> THEN <<>>
    ELSE InsertByOverallSavings(SortByOverallSavings(SubSeq(list, 1, Len(list) - 1)),
                                list[Len(list)])

\* The decimal digits of a natural number
RECURSIVE ToChars(_)
ToChars(n) ==
    LET d == CHOOSE c \in Digits : DigitVal[c] = n % 10
    IN IF n < 10 THEN <<d>> ELSE ToChars(n \div 10) \o <<d>>

\* audit.displayValue || `${Math.round(audit.details.overallSavingsMs / 1000)}s`
SavingsText(audit) ==
    IF audit.displayValue.has /\ audit.displayValue.str # <<>> THEN audit.displayValue
    ELSE IF audit.overallSavingsMs.k = "fin"
         THEN Str(ToChars(RoundThousandth(audit.overallSavingsMs)) \o <<"s">>)
         ELSE Str(<<"I", "n", "f", "i", "n", "i", "t", "y", "s">>)

\* .map(audit => ({title, description, savings, savingsMs}))
WithSavings(list) ==
    [i \in 1..Len(list) |->
        Item(list[i].title, list[i].description, list[i].overallSavingsMs,
             SavingsText(list[i]))]

\* audits[id].displayValue
DisplayValueOf(audits, id) == audits[AuditIndex(audits, id)].displayValue

\* The part of analyzePageSpeed after response.json()
analyzePageSpeed(p) ==
    IF \/ ~HasPerformance(p)
       \/ ~p.hasAudits
       \/ \E f \in DOMAIN AnalyzeMetricIds : AuditIndex(p.audits, AnalyzeMetricIds[f]) = 0
    THEN Thrown
    ELSE [done |-> TRUE, ok |-> TRUE,
          score |-> Round100(p.score),
          metrics |-> [f \in DOMAIN AnalyzeMetricIds |->
                          DisplayValueOf(p.audits, AnalyzeMetricIds[f])],
          recommendations |->
              WithSavings(Slice(SortByOverallSavings(FilterOpportunities(p.audits)),
                                RecsPerStrategy))]

-----------------------------------------------------------------------------
(* POST of /api/pagespeed and of /api/analyze *)

Strategies == {"mobile", "desktop"}

\* /^https?:\/\//i.test(u)
UrlMatches(u) ==
    LET l == ToLowerCase(u)
    IN \/ Len(l) >= 7 /\ SubSeq(l, 1, 7) = <<"h", "t", "t", "p", ":", "/", "/">>
       \/ Len(l) >= 8 /\ SubSeq(l, 1, 8) = <<"h", "t", "t", "p", "s", ":", "/", "/">>

\* !x for a string: undefined or empty
Falsy(x) == ~x.has \/ x.str = <<>>

\* NextResponse.json(...): the status and the body's error, mobile and desktop
Response(st, err, m, d) == [status |-> st, error |-> err, mobile |-> m, desktop |-> d]
ErrorResponse(st, err) == Response(st, err, NotCalled, NotCalled)

\* An upstream call: st is "idle", "pending" (request sent), "reading" (the
\* response has come, its body is awaited), "fulfilled" or "rejected"; ok is
\* response.ok; value is what the call resolved to; reason is the error
\* message it rejected with.
Call(st, ok, v, r) == [st |-> st, ok |-> ok, value |-> v, reason |-> r]

\* What a call that has not been fulfilled holds: for fetchPageSpeed no
\* payload, for analyzePageSpeed no result.
NoPayload == [shape |-> "null", score |-> Undefined, refs |-> [has |-> FALSE, ids |-> <<>>],
              hasAudits |-> FALSE, audits |-> <<>>]
NoValue(rt) == IF rt = "pagespeed" THEN NoPayload ELSE NotCalled

\* A Promise: pending, fulfilled, or rejected with a reason
PendingAll == [st |-> "pending", reason |-> ""]

\* As SettleAll, but the promise is fulfilled as soon as one call is
\* (Promise.any for Promise.all).
SettleAny(all, calls) ==
    IF all.st # "pending" THEN all
    ELSE IF \E x \in Strategies : calls[x].st = "fulfilled"
         THEN [st |-> "fulfilled", reason |-> ""]
    ELSE IF \A x \in Strategies : calls[x].st = "rejected"
         THEN [st |-> "rejected", reason |-> calls["mobile"].reason]
    ELSE all

\* Promise.all over the two calls: a settled promise stays as it is; the first
\* rejection rejects it (mobile's, when both calls reject in the same step);
\* it is fulfilled once both calls are.
SettleAll(all, calls) ==
    IF all.st # "pending" THEN all
    ELSE IF calls["mobile"].st = "rejected"
         THEN [st |-> "rejected", reason |-> calls["mobile"].reason]
    ELSE IF calls["desktop"].st = "rejected"
         THEN [st |-> "rejected", reason |-> calls["desktop"].reason]
    ELSE IF \A x \in Strategies : calls[x].st = "fulfilled"
         THEN [st |-> "fulfilled", reason |-> ""]
    ELSE all

Respond(r) ==
    /\ responses' = Append(responses, r)
    /\ hpc' = "done"

\* The two calls start: the handler waits on Promise.all.
StartCalls(calls, sent) ==
    /\ fetchSt' = calls
    /\ issued' = issued \cup sent
    /\ promiseAll' = SettleAll(PendingAll, calls)
    /\ hpc' = "awaiting"
    /\ UNCHANGED responses

\* POST of /api/pagespeed up to its await of Promise.all (route.ts:93-106),
\* fetchPageSpeed up to its await of fetch (route.ts:42-55) included.
PagespeedPostStart ==
    /\ route = "pagespeed" /\ hpc = "received"
    /\ IF body.kind = "malformed"
       THEN Respond(ErrorResponse(500, "Unexpected token"))
            /\ UNCHANGED <<fetchSt, promiseAll, issued>>
       ELSE IF body.kind = "null"
       THEN Respond(ErrorResponse(500, "Cannot read properties of null"))
            /\ UNCHANGED <<fetchSt, promiseAll, issued>>
       ELSE IF Falsy(body.url) \/ ~UrlMatches(body.url.str)
       THEN Respond(ErrorResponse(400, "Informe uma URL valida com http ou https."))
            /\ UNCHANGED <<fetchSt, promiseAll, issued>>
       ELSE IF ~envKey
       THEN StartCalls([x \in Strategies |->
                           Call("rejected", FALSE, NoValue(route),
                                "GOOGLE_PAGESPEED_API_KEY nao configurada.")], {})
       ELSE StartCalls([x \in Strategies |-> Call("pending", FALSE, NoValue(route), "")],
                       Strategies)
    /\ UNCHANGED <<route, body, envKey>>

\* POST of /api/analyze up to its await of Promise.all (route.ts:3-28),
\* analyzePageSpeed up to its await of fetch (route.ts:46-49) included.
AnalyzePostStart ==
    /\ route = "analyze" /\ hpc = "received"
    /\ IF body.kind = "malformed"
       THEN Respond(ErrorResponse(500, "Unexpected token"))
            /\ UNCHANGED <<fetchSt, promiseAll, issued>>
       ELSE IF body.kind = "null"
       THEN Respond(ErrorResponse(500, "Cannot destructure property of null"))
            /\ UNCHANGED <<fetchSt, promiseAll, issued>>
       ELSE IF Falsy(body.email) \/ Falsy(body.url)
       THEN Respond(ErrorResponse(400, "Email e URL sao obrigatorios"))
            /\ UNCHANGED <<fetchSt, promiseAll, issued>>
       ELSE IF ~envKey
       THEN Respond(ErrorResponse(500, "API key nao configurada"))
            /\ UNCHANGED <<fetchSt, promiseAll, issued>>
       ELSE StartCalls([x \in Strategies |-> Call("pending", FALSE, NoValue(route), "")],
                       Strategies)
    /\ UNCHANGED <<route, body, envKey>>

\* One call changes to c; Promise.all sees it.
Settle(x, c) ==
    /\ fetchSt' = [fetchSt EXCEPT ![x] = c]
    /\ promiseAll' = SettleAll(promiseAll, [fetchSt EXCEPT ![x] = c])
    /\ UNCHANGED <<route, body, envKey, hpc, issued, responses>>

\* await fetch(apiUrl) rejects: the request failed on the network.
FetchFails(x) ==
    /\ fetchSt[x].st = "pending"
    /\ Settle(x, Call("rejected", FALSE, NoValue(route), "fetch failed"))

\* await fetch(apiUrl) resolves with a response of status ok or not.  On
\* /api/analyze a response that is not ok throws at once (route.ts:51-53).
ResponseArrives(x, ok) ==
    /\ fetchSt[x].st = "pending"
    /\ IF route = "analyze" /\ ~ok
       THEN Settle(x, Call("rejected", FALSE, NoValue(route), "PageSpeed API error"))
       ELSE Settle(x, Call("reading", ok, NoValue(route), ""))

\* await response.text() of a response that is not ok, then the throw
\* (route.ts:56-61)
ErrorTextRead(x) ==
    /\ fetchSt[x].st = "reading" /\ ~fetchSt[x].ok
    /\ Settle(x, Call("rejected", FALSE, NoValue(route), "Falha ao consultar PageSpeed"))

\* await response.json() throws: the body is no JSON.
JsonMalformed(x) ==
    /\ fetchSt[x].st = "reading" /\ fetchSt[x].ok
    /\ Settle(x, Call("rejected", TRUE, NoValue(route), "Unexpected token"))

\* await response.json() gives payload p.  fetchPageSpeed returns it
\* (route.ts:63); analyzePageSpeed extracts from it (route.ts:55-81), and a
\* throw there rejects the call.
JsonRead(x, p) ==
    /\ fetchSt[x].st = "reading" /\ fetchSt[x].ok
    /\ IF route = "pagespeed"
       THEN Settle(x, Call("fulfilled", TRUE, p, ""))
       ELSE IF analyzePageSpeed(p).ok
       THEN Settle(x, Call("fulfilled", TRUE, analyzePageSpeed(p), ""))
       ELSE Settle(x, Call("rejected", TRUE, NoValue(route), "Cannot read properties of undefined"))

\* POST of /api/pagespeed after Promise.all has settled (route.ts:108-118)
PagespeedPostResume ==
    /\ route = "pagespeed" /\ hpc = "awaiting" /\ promiseAll.st # "pending"
    /\ IF promiseAll.st = "rejected"
       THEN Respond(ErrorResponse(500, promiseAll.reason))
       ELSE LET m == extractResult(fetchSt["mobile"].value)
                d == extractResult(fetchSt["desktop"].value)
            IN IF m.ok /\ d.ok THEN Respond(Response(200, "", m, d))
               ELSE Respond(ErrorResponse(500, "Cannot read properties of null"))
    /\ UNCHANGED <<route, body, envKey, fetchSt, promiseAll, issued>>

\* POST of /api/analyze after Promise.all has settled (route.ts:30-43)
AnalyzePostResume ==
    /\ route = "analyze" /\ hpc = "awaiting" /\ promiseAll.st # "pending"
    /\ IF promiseAll.st = "rejected"
       THEN Respond(ErrorResponse(500, promiseAll.reason))
       ELSE Respond(Response(200, "", fetchSt["mobile"].value, fetchSt["desktop"].value))
    /\ UNCHANGED <<route, body, envKey, fetchSt, promiseAll, issued>>

-----------------------------------------------------------------------------
(* HomePage: its state and handleSubmit *)

\* EMAIL_REGEX.test(e): /^[^\s@]+@[^\s@]+\.[^\s@]+$/
EmailMatches(e) ==
    \E i \in 1..Len(e), j \in 1..Len(e) :
        /\ e[i] = "@" /\ e[j] = "."
        /\ 1 < i /\ i + 1 < j /\ j < Len(e)
        /\ \A k \in 1..Len(e) : k # i => e[k] \notin {"@", " "}

\* useState<string | null>(null), useState<PageSpeedResult | null>(null)
NoError    == [has |-> FALSE, msg |-> ""]
Error(m)   == [has |-> TRUE, msg |-> m]
NoResult   == [has |-> FALSE, data |-> "none"]
Result(d)  == [has |-> TRUE, data |-> d]

\* What the fetch of /api/pagespeed ends with: kind "network" (fetch
\* rejects), "text" (a body that is no JSON) or "json"; ok is response.ok;
\* error is the body's error field ("" without one); data names the report.
Reply(k, ok, err, d) == [kind |-> k, ok |-> ok, error |-> err, data |-> d]
NoReply == Reply("none", FALSE, "", "none")

\* As ClearAndValidate, without setResult(null).
ClearErrorOnly(e, u, res) ==
    IF ~EmailMatches(e)
    THEN [error |-> Error("Digite um email valido."), result |-> res, sent |-> FALSE]
    ELSE IF ~UrlMatches(u)
    THEN [error |-> Error("Digite uma URL valida com http ou https."), result |-> res,
          sent |-> FALSE]
    ELSE [error |-> NoError, result |-> res, sent |-> TRUE]

\* handleSubmit up to its fetch (part_000:45-63): error and result are
\* cleared, email and url are tested; sent tells whether the fetch is made.
ClearAndValidate(e, u, res) ==
    IF ~EmailMatches(e)
    THEN [error |-> Error("Digite um email valido."), result |-> NoResult, sent |-> FALSE]
    ELSE IF ~UrlMatches(u)
    THEN [error |-> Error("Digite uma URL valida com http ou https."), result |-> NoResult,
          sent |-> FALSE]
    ELSE [error |-> NoError, result |-> NoResult, sent |-> TRUE]

\* try/catch of handleSubmit (part_000:65-78) on reply r: the message of the
\* error caught, or none.
Caught(r) ==
    IF r.kind = "network" THEN Error("Failed to fetch")
    ELSE IF r.kind = "text" THEN Error("Unexpected token")
    ELSE IF ~r.ok
    THEN Error(IF r.error # "" THEN r.error ELSE "Nao foi possivel analisar.")
    ELSE NoError

\* onChange of the email input
ChangeEmail(e) ==
    /\ email' = e
    /\ UNCHANGED <<url, loading, error, result, cpc, reply, submits>>

\* onChange of the url input
ChangeUrl(u) ==
    /\ url' = u
    /\ UNCHANGED <<email, loading, error, result, cpc, reply, submits>>

\* handleSubmit up to its await of fetch.  The submit button is disabled
\* while loading (part_000:129).
HandleSubmit ==
    /\ ~loading
    /\ submits < MaxSubmits
    /\ LET v == ClearAndValidate(email, url, result)
       IN /\ error' = v.error
          /\ result' = v.result
          /\ loading' = v.sent
          /\ cpc' = IF v.sent THEN "awaiting" ELSE "idle"
    /\ reply' = NoReply
    /\ submits' = submits + 1
    /\ UNCHANGED <<email, url>>

\* handleSubmit from the settling of its fetch to its end
FetchSettled(r) ==
    /\ cpc = "awaiting"
    /\ reply' = r
    /\ IF Caught(r).has
       THEN error' = Caught(r) /\ UNCHANGED result
       ELSE result' = Result(r.data) /\ UNCHANGED error
    /\ loading' = FALSE
    /\ cpc' = "idle"
    /\ UNCHANGED <<email, url, submits>>

-----------------------------------------------------------------------------
(* Idle values of the state each specification leaves alone *)

SavingsIdle ==
    /\ sItem = Item("", "", Undefined, NoStr)
    /\ sOut = NoNum

NotMerged == [done |-> FALSE, list |-> <<>>]

MergeIdle ==
    /\ mobile = <<>>
    /\ desktop = <<>>
    /\ merged = NotMerged

ExtractIdle ==
    /\ payload = <<>>
    /\ extracted = NotCalled
    /\ analyzed = NotCalled

ServerIdle ==
    /\ route = "none"
    /\ body = [kind |-> "none", email |-> NoStr, url |-> NoStr]
    /\ envKey = FALSE
    /\ hpc = "idle"
    /\ fetchSt = [x \in Strategies |-> Call("idle", FALSE, NotCalled, "")]
    /\ promiseAll = PendingAll
    /\ issued = {}
    /\ responses = <<>>

ClientIdle ==
    /\ email = <<>>
    /\ url = <<>>
    /\ loading = FALSE
    /\ error = NoError
    /\ result = NoResult
    /\ cpc = "idle"
    /\ reply = NoReply
    /\ submits = 0

-----------------------------------------------------------------------------
(* SpecSavings: getSavingsMs applied to one item *)

\* Characters of the enumerated savings strings.
Alphabet == {"1", "5", ".", ",", "s", "m", "S", " "}

AllStrings == UNION {[1..n -> Alphabet] : n \in 0..MaxStrLen}

\* The strings of the documented examples, and some of their variants.
ExampleStrings ==
    { <<"1", ".", "2", " ", "s">>,
      <<"3", "0", "0", " ", "m", "s">>,
      <<"1", ",", "5", " ", "s">>,
      <<"a", "b", "c">>,
      <<"3", "0", "0", " ", "M", "S">>,
      <<"1", ",", "2", ",", "5", " ", "s">> }

\* A number JSON.parse can produce for savingsMs (part_000:69): a finite
\* number, or +/-Infinity from a literal beyond the double range (1e999).
JsonNumbers == {Fin(0, 1), Fin(500, 1), PosInf, NegInf}

SavingsInputs ==
    {Item("T", "", ms, Str(s)) : ms \in {Undefined, Null}, s \in AllStrings \cup ExampleStrings}
    \cup {Item("T", "", ms, NoStr) : ms \in {Undefined, Null}}
    \cup {Item("T", "", ms, sv) : ms \in JsonNumbers,
                                  sv \in {NoStr, Str(<<"1", ".", "2", " ", "s">>)}}

InitSavings ==
    /\ sItem \in SavingsInputs
    /\ sOut = NoNum
    /\ MergeIdle /\ ExtractIdle /\ ServerIdle /\ ClientIdle

CallGetSavingsMs ==
    /\ sOut = NoNum
    /\ sOut' = getSavingsMs(sItem)
    /\ UNCHANGED <<sItem, mergeVars, extractVars, serverVars, clientVars>>

NextSavings == CallGetSavingsMs

SpecSavings == InitSavings /\ [][NextSavings]_vars

-----------------------------------------------------------------------------
(* SpecMerge: mergeRecommendations applied to two lists *)

Titles == <<"A", "B", "C", "D", "E", "F">>

\* Titles matter to the merge only through equality (they are Map keys), so
\* the title sequences are enumerated up to renaming: the first new title is
\* "A", the next new one "B", ...
TitleSeqs(n) ==
    {t \in [1..n -> 1..n] :
        \A i \in 1..n : \/ t[i] = 1
                        \/ \E j \in 1..(i - 1) : t[j] >= t[i] - 1}

\* (savingsMs, savings) of the enumerated items: 0, 500 and 1200 ms.
SavingsVariants ==
    { <<Undefined, NoStr>>,
      <<Fin(500, 1), NoStr>>,
      <<Undefined, Str(<<"1", ".", "2", " ", "s">>)>> }

\* The same with the numbers JSON.parse gives for 1e999 and -1e999.
WideVariants ==
    SavingsVariants \cup
    { <<PosInf, NoStr>>,
      <<NegInf, Str(<<"1", ".", "2", " ", "s">>)>> }

\* Up to this many items in both lists together, every pattern of repeated
\* titles and WideVariants are enumerated; longer inputs repeat at most one
\* title, once, and take SavingsVariants.
MaxFree == 3

Distinct(t, n) == Cardinality({t[i] : i \in 1..n})

\* The description tags an item with its place, which tells equal-looking
\* items of the two lists apart.
MobileTag  == <<"m1", "m2", "m3">>
DesktopTag == <<"d1", "d2", "d3">>

MergeInputs(m, d, t, v) ==
    /\ mobile = [i \in 1..m |-> Item(Titles[t[i]], MobileTag[i], v[i][1], v[i][2])]
    /\ desktop = [i \in 1..d |->
                     Item(Titles[t[m + i]], DesktopTag[i], v[m + i][1], v[m + i][2])]

InitMerge ==
    /\ \E m \in 0..RecsPerStrategy, d \in 0..RecsPerStrategy :
         \/ /\ m + d <= MaxFree
            /\ \E t \in TitleSeqs(m + d) :
                  \E v \in [1..(m + d) -> WideVariants] : MergeInputs(m, d, t, v)
         \/ /\ m + d > MaxFree
            /\ \E t \in {u \in TitleSeqs(m + d) : Distinct(u, m + d) >= m + d - 1} :
                  \E v \in [1..(m + d) -> SavingsVariants] : MergeInputs(m, d, t, v)
    /\ merged = NotMerged
    /\ SavingsIdle /\ ExtractIdle /\ ServerIdle /\ ClientIdle

CallMergeRecommendations ==
    /\ ~merged.done
    /\ merged' = [done |-> TRUE, list |-> mergeRecommendations(mobile, desktop)]
    /\ UNCHANGED <<mobile, desktop, savingsVars, extractVars, serverVars, clientVars>>

NextMerge == CallMergeRecommendations

SpecMerge == InitMerge /\ [][NextMerge]_vars

-----------------------------------------------------------------------------
(* SpecExtract: extractResult and analyzePageSpeed applied to one payload *)

\* Longest auditRefs list enumerated.
MaxRefs == 4

Audit(id, t, d, sc, dv, nv, hd, os) ==
    [id |-> id, title |-> t, description |-> d, score |-> sc, displayValue |-> dv,
     numericValue |-> nv, hasDetails |-> hd, overallSavingsMs |-> os]

Seconds12 == Str(<<"1", ".", "2", " ", "s">>)
Ms300     == Str(<<"3", "0", "0", " ", "m", "s">>)

\* A metric audit as the upstream API reports it.
MetricAudit(id) == Audit(id, id, "metric", Fin(9, 10), Seconds12, Fin(1200, 1), FALSE, Undefined)

MetricIds ==
    <<"first-contentful-paint", "largest-contentful-paint", "total-blocking-time",
      "cumulative-layout-shift", "speed-index">>

AllMetrics == [i \in 1..Len(MetricIds) |-> MetricAudit(MetricIds[i])]

\* Audits with room for improvement, passed, not scored and untitled ones.
Opportunities ==
    << Audit("unused-javascript", "Reduce unused JavaScript", "js",
             Fin(5, 10), Ms300, Fin(300, 1), TRUE, Fin(300, 1)),
       Audit("render-blocking-resources", "Eliminate render-blocking resources", "rb",
             Zero, NoStr, Fin(150, 1), TRUE, Fin(1500, 1)),
       Audit("uses-optimized-images", "Efficiently encode images", "img",
             Fin(5, 10), NoStr, Undefined, FALSE, Undefined),
       Audit("font-display", "Ensure text remains visible", "font",
             Fin(5, 10), Str(<<>>), Fin(300, 1), TRUE, Fin(80, 1)),
       Audit("uses-text-compression", "Enable text compression", "gz",
             One, NoStr, Fin(500, 1), TRUE, Fin(500, 1)),
       Audit("third-party-summary", "Minimize third-party usage", "3p",
             Null, NoStr, Fin(500, 1), TRUE, Fin(500, 1)),
       Audit("network-requests", "Network requests", "net",
             Undefined, NoStr, Fin(500, 1), TRUE, Fin(500, 1)),
       Audit("untitled", "", "none",
             Fin(5, 10), NoStr, Fin(400, 1), TRUE, Fin(400, 1)) >>

\* The ids an auditRefs entry may name: the opportunities, a metric, and an
\* id the audits mapping does not hold.
RefIds ==
    {Opportunities[i].id : i \in 1..Len(Opportunities)}
    \cup {"first-contentful-paint", "not-in-audits"}

RECURSIVE SelectAudits(_, _)
SelectAudits(audits, ids) ==
    IF audits = <<>> THEN <<>>
    ELSE IF Head(audits).id \in ids THEN <<Head(audits)>> \o SelectAudits(Tail(audits), ids)
    ELSE SelectAudits(Tail(audits), ids)

Payload(sh, sc, refs, ha, audits) ==
    [shape |-> sh, score |-> sc, refs |-> refs, hasAudits |-> ha, audits |-> audits]

Refs(ids) == [has |-> TRUE, ids |-> ids]
NoRefs    == [has |-> FALSE, ids |-> <<>>]

Shapes == {"null", "noLighthouse", "noCategories", "noPerformance", "ok"}

\* Scores in [0, 1], absent and null.
ScoreInputs ==
    {Undefined, Null, Zero, Fin(4, 1000), Fin(5, 10), Fin(57, 100), Fin(996, 1000), One}

AllRefs == <<"unused-javascript", "render-blocking-resources", "first-contentful-paint">>

\* Payloads that differ in what is present and in the score.
ScorePayloads ==
    {Payload(sh, IF sh = "ok" THEN sc ELSE Undefined,
             IF sh = "ok" THEN rf ELSE NoRefs,
             ha /\ sh \notin {"null", "noLighthouse"},
             IF ha /\ sh \notin {"null", "noLighthouse"} THEN AllMetrics \o Opportunities ELSE <<>>) :
        sh \in Shapes, sc \in ScoreInputs, rf \in {NoRefs, Refs(AllRefs)}, ha \in BOOLEAN}

\* What a metric audit may look like: absent, without or with a display value.
MetricForms == {"absent", "bare", "shown"}

MetricAudits(form) ==
    LET present == {i \in 1..Len(MetricIds) : form[i] # "absent"}
    IN SelectAudits(
           [i \in 1..Len(MetricIds) |->
               IF form[i] = "bare"
               THEN [MetricAudit(MetricIds[i]) EXCEPT !.displayValue = NoStr]
               ELSE MetricAudit(MetricIds[i])],
           {MetricIds[i] : i \in present})

\* Payloads that differ in the metric audits.
MetricPayloads ==
    {Payload("ok", Fin(57, 100), Refs(AllRefs), TRUE, MetricAudits(form) \o Opportunities) :
        form \in [1..Len(MetricIds) -> MetricForms]}

RefSeqs == UNION {[1..n -> RefIds] : n \in 0..MaxRefs}

\* Payloads that differ in the audit references and in the audits held: all
\* of them, or the opportunities only.
RefPayloads ==
    {Payload("ok", Fin(57, 100), rf, TRUE, audits) :
        rf \in {NoRefs} \cup {Refs(ids) : ids \in RefSeqs},
        audits \in {AllMetrics \o Opportunities, Opportunities}}

InitExtract ==
    /\ payload \in ScorePayloads \cup MetricPayloads \cup RefPayloads
    /\ extracted = NotCalled
    /\ analyzed = NotCalled
    /\ SavingsIdle /\ MergeIdle /\ ServerIdle /\ ClientIdle

CallExtractResult ==
    /\ ~extracted.done
    /\ extracted' = extractResult(payload)
    /\ UNCHANGED <<payload, analyzed, savingsVars, mergeVars, serverVars, clientVars>>

CallAnalyzePageSpeed ==
    /\ ~analyzed.done
    /\ analyzed' = analyzePageSpeed(payload)
    /\ UNCHANGED <<payload, extracted, savingsVars, mergeVars, serverVars, clientVars>>

NextExtract == CallExtractResult \/ CallAnalyzePageSpeed

SpecExtract == InitExtract /\ [][NextExtract]_vars

-----------------------------------------------------------------------------
(* SpecServer: one POST to either route, its two upstream calls interleaved *)

Routes == {"pagespeed", "analyze"}

\* The url values of the enumerated bodies: "", and strings with and without
\* an http(s) scheme.
UrlInputs ==
    { <<>>,
      <<"f", "t", "p", ":", "/", "/", "x">>,
      <<"h", "t", "t", "p", ":", "/", "/", "x">>,
      <<"h", "t", "t", "p", "s", ":", "/", "/", "x">>,
      <<"H", "T", "T", "P", "S", ":", "/", "/", "x">>,
      <<"h", "t", "t", "p", ":", "/", "x">>,
      <<"x", ".", "c", "o">>,
      <<"x", "h", "t", "t", "p", ":", "/", "/">> }

EmailInputs == { <<>>, <<"a", "@", "b", ".", "c", "o">>, <<"a", "@", "b">> }

\* The JSON bodies of the inbound request: no JSON, null, or an object with
\* or without url and email.
Bodies ==
    {[kind |-> k, email |-> NoStr, url |-> NoStr] : k \in {"malformed", "null"}}
    \cup {[kind |-> "object", email |-> e, url |-> u] :
              e \in {NoStr} \cup {Str(x) : x \in EmailInputs},
              u \in {NoStr} \cup {Str(x) : x \in UrlInputs}}

GoodPayload == Payload("ok", Fin(57, 100), Refs(AllRefs), TRUE, AllMetrics \o Opportunities)
BarePayload == Payload("noLighthouse", Undefined, NoRefs, FALSE, <<>>)

\* What the upstream API may answer with status ok: a full report, an object
\* without lighthouseResult, or null.
UpstreamPayloads == {GoodPayload, BarePayload, NoPayload}

InitServer ==
    /\ route \in Routes
    /\ body \in Bodies
    /\ envKey \in BOOLEAN
    /\ hpc = "received"
    /\ fetchSt = [x \in Strategies |-> Call("idle", FALSE, NoValue(route), "")]
    /\ promiseAll = PendingAll
    /\ issued = {}
    /\ responses = <<>>
    /\ SavingsIdle /\ MergeIdle /\ ExtractIdle /\ ClientIdle

Others == <<savingsVars, mergeVars, extractVars, clientVars>>

NextServer ==
    \/ PagespeedPostStart /\ UNCHANGED Others
    \/ AnalyzePostStart /\ UNCHANGED Others
    \/ \E x \in Strategies : FetchFails(x) /\ UNCHANGED Others
    \/ \E x \in Strategies, ok \in BOOLEAN : ResponseArrives(x, ok) /\ UNCHANGED Others
    \/ \E x \in Strategies : ErrorTextRead(x) /\ UNCHANGED Others
    \/ \E x \in Strategies : JsonMalformed(x) /\ UNCHANGED Others
    \/ \E x \in Strategies, p \in UpstreamPayloads : JsonRead(x, p) /\ UNCHANGED Others
    \/ PagespeedPostResume /\ UNCHANGED Others
    \/ AnalyzePostResume /\ UNCHANGED Others

SpecServer == InitServer /\ [][NextServer]_vars

-----------------------------------------------------------------------------
(* SpecClient: the form is edited and submitted, the fetch settles *)

ClientEmails ==
    { <<>>, <<"a", "@", "b", ".", "c", "o">>, <<"a", "@", "b">>,
      <<"a", " ", "@", "b", ".", "c">>, <<"a", "@", "@", "b", ".", "c">>,
      <<"a", "@", ".", "c">>, <<"a", ".", "b", "@", "c", ".", "d", ".", "e">> }

ClientUrls ==
    { <<>>, <<"f", "t", "p", ":", "/", "/", "x">>,
      <<"h", "t", "t", "p", ":", "/", "/", "x">>,
      <<"H", "T", "T", "P", "S", ":", "/", "/", "x">>,
      <<"x", ".", "c", "o">> }

\* What the fetch may end with: a failed request, a body that is no JSON
\* with either status, an error body with or without an error field, a
\* report.
Replies ==
    {Reply("network", FALSE, "", "none")}
    \cup {Reply("text", ok, "", "none") : ok \in BOOLEAN}
    \cup {Reply("json", FALSE, e, "none") :
              e \in {"", "Informe uma URL valida com http ou https.",
                     "Falha ao consultar PageSpeed"}}
    \cup {Reply("json", TRUE, "", d) : d \in {"report1", "report2"}}

InitClient ==
    /\ email = <<>>
    /\ url = <<>>
    /\ loading = FALSE
    /\ error = NoError
    /\ result = NoResult
    /\ cpc = "idle"
    /\ reply = NoReply
    /\ submits = 0
    /\ SavingsIdle /\ MergeIdle /\ ExtractIdle /\ ServerIdle

NotClient == <<savingsVars, mergeVars, extractVars, serverVars>>

NextClient ==
    \/ \E e \in ClientEmails : ChangeEmail(e) /\ UNCHANGED NotClient
    \/ \E u \in ClientUrls : ChangeUrl(u) /\ UNCHANGED NotClient
    \/ HandleSubmit /\ UNCHANGED NotClient
    \/ \E r \in Replies : FetchSettled(r) /\ UNCHANGED NotClient

SpecClient == InitClient /\ [][NextClient]_vars

-----------------------------------------------------------------------------
(* Claims about getSavingsMs (SpecSavings) *)

Min(S) == CHOOSE x \in S : \A y \in S : x <= y
Max(S) == CHOOSE x \in S : \A y \in S : x >= y

\* The number whose decimal digits are the characters of n at the places in
\* digs, read left to right.
RECURSIVE DecimalOf(_, _)
DecimalOf(n, digs) ==
    IF digs = {} THEN 0
    ELSE LET k == Max(digs)
         IN 10 * DecimalOf(n, digs \ {k}) + DigitVal[n[k]]

\* x is the finite number n/d.
IsRational(x, n, d) == x.k = "fin" /\ x.num * d = n * x.den

\* What the documented rule assigns to the savings string sv, stated on the
\* places of the string: x is that estimate.
IsDocumentedEstimate(x, sv) ==
    LET s      == sv.str
        commas == {i \in 1..Len(s) : s[i] = ","}
        n      == [i \in 1..Len(s) |->
                      IF commas # {} /\ i = Min(commas) THEN "." ELSE LowerChar(s[i])]
        inRun  == {i \in 1..Len(s) : n[i] \in DigitDot}
    IN IF ~sv.has \/ s = <<>> \/ inRun = {} THEN x = Zero
       ELSE LET a    == Min(inRun)
                b    == Max({j \in a..Len(s) : \A k \in a..j : n[k] \in DigitDot})
                dots == {k \in a..b : n[k] = "."}
                digs == (a..b) \ dots
            IN IF Cardinality(dots) > 1 \/ digs = {} THEN x = Zero
               ELSE LET frac   == Cardinality({k \in digs : \E p \in dots : k > p})
                        hasMs  == \E i \in 1..(Len(s) - 1) : n[i] = "m" /\ n[i + 1] = "s"
                        hasS   == \E i \in 1..Len(s) : n[i] = "s"
                        factor == IF hasS /\ ~hasMs THEN 1000 ELSE 1
                    IN IsRational(x, DecimalOf(n, digs) * factor, Pow10(frac))

\* C3: for an item without a numeric savingsMs, getSavingsMs is 0 for an
\* absent or empty string, 0 when there is no digit/period run or the first
\* run is no number, and otherwise the first run (first comma read as a
\* period, lowercased) in milliseconds, times 1000 when the string has "s"
\* but not "ms"; "1.2 s" is 1200, "300 ms" is 300, "1,5 s" is 1500, "" is 0
\* and "abc" is 0.
C3_SavingsStringParsed ==
    (sOut # NoNum /\ ~IsNumber(sItem.savingsMs)) =>
        /\ IsDocumentedEstimate(sOut, sItem.savings)
        /\ sItem.savings = Str(<<"1", ".", "2", " ", "s">>) => sOut = Fin(1200, 1)
        /\ sItem.savings = Str(<<"3", "0", "0", " ", "m", "s">>) => sOut = Fin(300, 1)
        /\ sItem.savings = Str(<<"1", ",", "5", " ", "s">>) => sOut = Fin(1500, 1)
        /\ sItem.savings = Str(<<>>) => sOut = Zero
        /\ sItem.savings = NoStr => sOut = Zero
        /\ sItem.savings = Str(<<"a", "b", "c">>) => sOut = Zero

\* "1,5 s" without a savingsMs has been estimated at 1500 ms.
C3_Witness ==
    /\ ~IsNumber(sItem.savingsMs)
    /\ sItem.savings = Str(<<"1", ",", "5", " ", "s">>)
    /\ sOut = Fin(1500, 1)

\* C10: getSavingsMs uses savingsMs only when it is a finite number; for an
\* absent or non-finite savingsMs the estimate comes from the savings string,
\* so the estimate is always finite.
C10_EstimateAlwaysFinite ==
    sOut # NoNum =>
        /\ IsFinite(sOut)
        /\ IsFinite(sItem.savingsMs) => sOut = sItem.savingsMs
        /\ ~IsFinite(sItem.savingsMs) =>
               sOut = getSavingsMs([sItem EXCEPT !.savingsMs = Undefined])

\* getSavingsMs has returned the Infinity it was given as savingsMs.
C10_InfinityReturned ==
    /\ sItem.savingsMs = PosInf
    /\ sItem.savings = Str(<<"1", ".", "2", " ", "s">>)
    /\ sOut = PosInf

-----------------------------------------------------------------------------
(* Claims about the extractors (SpecExtract) *)

\* The score is a fraction in [0, 1].
IsFraction(x) == x.k = "fin" /\ 0 <= x.num /\ x.num <= x.den

\* The integer r is x * 100 rounded to the nearest integer, a half upwards.
IsRounded100(r, x) ==
    /\ r.k = "fin" /\ r.den = 1
    /\ (2 * r.num - 1) * x.den <= 200 * x.num
    /\ 200 * x.num < (2 * r.num + 1) * x.den

\* The payload is an object without a score or without the whole category.
ScoreAbsent(p) ==
    \/ p.shape = "ok" /\ p.score = Undefined
    \/ p.shape \in {"noPerformance", "noCategories", "noLighthouse"}

\* The score of result r is what C4 says for payload p.
ScoreAsDocumented(r, p) ==
    /\ (p.shape = "ok" /\ IsFraction(p.score)) =>
          r.ok /\ IsRounded100(r.score, p.score) /\ r.score.num \in 0..100
    /\ ScoreAbsent(p) => r.ok /\ r.score = Zero

\* C4: the score of both extractors is round(s * 100), an integer in
\* [0, 100], for a fraction s in [0, 1]; with the score or the performance
\* category absent there is still a result and its score is 0.
C4_ScoreRounded ==
    /\ extracted.done => ScoreAsDocumented(extracted, payload)
    /\ analyzed.done => ScoreAsDocumented(analyzed, payload)

\* C4 for extractResult alone.
C4_ExtractResultOnly == extracted.done => ScoreAsDocumented(extracted, payload)

\* The four metrics of result r are what C5 says for payload p.
MetricsAsDocumented(r, p) ==
    (p.shape = "ok" /\ p.hasAudits) =>
        /\ r.ok
        /\ \A f \in DOMAIN METRIC_MAP :
              LET held == {i \in 1..Len(p.audits) : p.audits[i].id = METRIC_MAP[f]}
              IN IF \E i \in held : p.audits[i].displayValue.has
                 THEN \E i \in held : r.metrics[f] = p.audits[i].displayValue
                 ELSE r.metrics[f] = Str(<<"-", "-">>)

\* C5: each of the four metrics is the audit's display value when present
\* and exactly "--" when the audit is absent or has no display value; an
\* absent audit never makes the extraction fail.
C5_MetricsOrPlaceholder ==
    /\ extracted.done => MetricsAsDocumented(extracted, payload)
    /\ analyzed.done => MetricsAsDocumented(analyzed, payload)

\* C5 for extractResult alone.
C5_ExtractResultOnly == extracted.done => MetricsAsDocumented(extracted, payload)

\* The audit references of p that resolve to an audit with a non-empty title
\* and a score strictly below 1.
QualifyingRefs(p) ==
    IF p.shape = "ok" /\ p.refs.has /\ p.hasAudits
    THEN {j \in 1..Len(p.refs.ids) :
            \E i \in 1..Len(p.audits) :
               /\ p.audits[i].id = p.refs.ids[j]
               /\ p.audits[i].title # ""
               /\ p.audits[i].score.k = "fin"
               /\ p.audits[i].score.num < p.audits[i].score.den}
    ELSE {}

\* The audit of p a reference names.
AuditOfRef(p, j) == CHOOSE a \in {p.audits[i] : i \in 1..Len(p.audits)} : a.id = p.refs.ids[j]

\* The recommendations of result r are what C9 says for payload p, with
\* Savings(a) the numeric savings of audit a, 0 when missing.
RecommendationsAsDocumented(r, p, Savings(_)) ==
    r.ok =>
        LET out  == r.recommendations
            q    == QualifyingRefs(p)
            from == [k \in 1..Len(out) |->
                        {j \in q : /\ AuditOfRef(p, j).title = out[k].title
                                   /\ AuditOfRef(p, j).description = out[k].description}]
            sv   == [k \in 1..Len(out) |->
                        IF from[k] = {} THEN Zero
                        ELSE Savings(AuditOfRef(p, CHOOSE j \in from[k] : TRUE))]
        IN /\ Len(out) <= 3
           /\ \A k \in 1..Len(out) : from[k] # {}
           /\ \A k, l \in 1..Len(out) : k < l => GreaterEq(sv[k], sv[l])
           /\ \A j \in q :
                 (\A k \in 1..Len(out) : j \notin from[k]) =>
                    \A k \in 1..Len(out) : ~Greater(Savings(AuditOfRef(p, j)), sv[k])

NumericValueOrZero(a) == Coalesce(a.numericValue, Zero)
OverallSavingsOrZero(a) == Coalesce(OverallSavings(a), Zero)

\* C9: the recommendations number at most 3; each is an audit resolved from
\* the category's audit references with a non-empty title and a score
\* strictly below 1; they are in non-increasing order of numeric savings
\* (missing as 0); no qualifying audit of strictly greater savings than a
\* returned one is left out.
C9_TopThreeRecommendations ==
    /\ extracted.done => RecommendationsAsDocumented(extracted, payload, NumericValueOrZero)
    /\ analyzed.done => RecommendationsAsDocumented(analyzed, payload, OverallSavingsOrZero)

\* C9 for extractResult alone.
C9_ExtractResultOnly ==
    extracted.done => RecommendationsAsDocumented(extracted, payload, NumericValueOrZero)

\* extractResult has cut four qualifying audits of different savings to three.
C9_ExtractResultTruncates ==
    /\ extracted.done
    /\ Cardinality(QualifyingRefs(payload)) = 4
    /\ Len(extracted.recommendations) = 3
    /\ extracted.recommendations[1].title # extracted.recommendations[2].title

\* analyzePageSpeed has thrown on a payload without a performance category.
C4_AnalyzeThrows ==
    /\ payload.shape = "noPerformance" /\ payload.hasAudits
    /\ analyzed.done /\ ~analyzed.ok

\* analyzePageSpeed has thrown on a payload whose audits lack a metric.
C5_AnalyzeThrows ==
    /\ payload.shape = "ok" /\ payload.hasAudits
    /\ AuditIndex(payload.audits, "largest-contentful-paint") = 0
    /\ analyzed.done /\ ~analyzed.ok

\* analyzePageSpeed has recommended audits of a payload without audit
\* references.
C9_AnalyzeIgnoresRefs ==
    /\ ~payload.refs.has
    /\ analyzed.ok
    /\ Len(analyzed.recommendations) = 3

-----------------------------------------------------------------------------
(* Claims about mergeRecommendations (SpecMerge) *)

Concat == mobile \o desktop

TitlesOf(list) == {list[i].title : i \in 1..Len(list)}

\* The estimated savings of the items of a list, place by place.
RECURSIVE SavingsOf(_)
SavingsOf(list) ==
    IF list = <<>> THEN <<>>
    ELSE <<getSavingsMs(Head(list))>> \o SavingsOf(Tail(list))

\* C1: the merged list has at most 5 items (all of them when there are at
\* most 5 titles), no title twice, non-increasing estimated savings, and no
\* title left out has greater estimated savings than an item kept.
C1_MergedTopFive ==
    merged.done =>
        LET out == merged.list
            n   == Cardinality(TitlesOf(Concat))
            so  == SavingsOf(out)
            sc  == SavingsOf(Concat)
        IN /\ Len(out) <= 5
           /\ Len(out) = (IF n < 5 THEN n ELSE 5)
           /\ \A i, j \in 1..Len(out) : i < j => out[i].title # out[j].title
           /\ \A i, j \in 1..Len(out) : i < j => GreaterEq(so[i], so[j])
           /\ \A i \in 1..Len(Concat) :
                 Concat[i].title \notin TitlesOf(out) =>
                    \A k \in 1..Len(out) : GreaterEq(so[k], sc[i])

\* Six titles went in, five came out in strictly mixed order of savings, and
\* the title left out has less savings than the last one kept.
C1_Witness ==
    /\ merged.done
    /\ Cardinality(TitlesOf(Concat)) = 6
    /\ Len(merged.list) = 5
    /\ Greater(getSavingsMs(merged.list[1]), getSavingsMs(merged.list[5]))
    /\ \E i \in 1..Len(Concat) :
          /\ Concat[i].title \notin TitlesOf(merged.list)
          /\ Greater(getSavingsMs(merged.list[5]), getSavingsMs(Concat[i]))

\* Place i holds, among the items of its title, the earliest one of greatest
\* estimated savings (sc: the savings of Concat, place by place).
IsWinner(i, sc) ==
    \A j \in 1..Len(Concat) :
        Concat[j].title = Concat[i].title =>
            /\ GreaterEq(sc[i], sc[j])
            /\ j < i => Greater(sc[i], sc[j])

\* C2: scanning mobile then desktop, the item kept for a title is the one of
\* greatest estimated savings, the earliest on a tie, whether the savings is
\* a number or a string ({savingsMs: 500} loses to {savings: "1.2 s"}); every
\* output item is an input item, unchanged.
C2_HighestSavingsKept ==
    merged.done =>
        LET sc == SavingsOf(Concat)
            n  == Cardinality(TitlesOf(Concat))
        IN /\ \A k \in 1..Len(merged.list) :
                 \E i \in 1..Len(Concat) : Concat[i] = merged.list[k] /\ IsWinner(i, sc)
           /\ n <= 5 => TitlesOf(merged.list) = TitlesOf(Concat)

\* {savingsMs: 500} in mobile and {savings: "1.2 s"} in desktop share a
\* title, and the merged list holds the desktop item.
C2_Witness ==
    /\ merged.done
    /\ Len(mobile) = 1 /\ Len(desktop) = 1
    /\ mobile[1].title = desktop[1].title
    /\ mobile[1].savingsMs = Fin(500, 1)
    /\ desktop[1].savingsMs = Undefined
    /\ desktop[1].savings = Str(<<"1", ".", "2", " ", "s">>)
    /\ merged.list = <<desktop[1]>>

\* The comparator of the sort is consistent on the items of a merge: it
\* orders them totally up to equal savings, so the sorted order is defined.
ComparatorConsistent ==
    LET sc      == SavingsOf(Concat)
        vals    == {sc[i] : i \in 1..Len(sc)}
        c(x, y) == SubSign(y, x)
    IN \A x, y, z \in vals :
          /\ c(x, y) = -c(y, x)
          /\ (c(x, y) <= 0 /\ c(y, z) <= 0) => c(x, z) <= 0
          /\ (c(x, y) < 0 /\ c(y, z) <= 0) => c(x, z) < 0

-----------------------------------------------------------------------------
(* Claims about the POST handlers *)

\* The url of the request is missing or does not match ^https?://
UrlRejected == body.kind = "object" /\ (~body.url.has \/ ~UrlMatches(body.url.str))

RejectedWith400 ==
    /\ issued = {}
    /\ hpc = "done" =>
           /\ Len(responses) = 1
           /\ responses[1].status = 400
           /\ responses[1].error # ""

\* C6: a POST whose url is missing or does not match ^https?:// is answered
\* with status 400 and an error body, and no upstream request, mobile or
\* desktop, is issued while it is handled (either route).
C6_InvalidUrlRejected == UrlRejected => RejectedWith400

\* C6 as it holds of /api/pagespeed alone.
C6_PagespeedOnly == (route = "pagespeed" /\ UrlRejected) => RejectedWith400

\* A POST to /api/pagespeed with url "ftp://x" has been answered.
C6_PagespeedRejects ==
    /\ route = "pagespeed" /\ hpc = "done"
    /\ body.url = Str(<<"f", "t", "p", ":", "/", "/", "x">>)

\* A POST to /api/analyze with url "ftp://x" has issued both upstream
\* requests.
C6_AnalyzeCallsUpstream ==
    /\ route = "analyze"
    /\ body.url = Str(<<"f", "t", "p", ":", "/", "/", "x">>)
    /\ issued = Strategies

Succeeded(x) == fetchSt[x].st = "fulfilled"
Failed(x)    == fetchSt[x].st = "rejected"

CarriesResults(r) == r.mobile.done \/ r.desktop.done

\* C7: under every interleaving of the two upstream calls, a 200 response
\* with {mobile, desktop} is sent only if both calls succeeded; if either
\* call failed the response is a 500 with an error body and neither
\* strategy's result; one response is sent per request, never more.
C7_AllOrNothing ==
    /\ Len(responses) <= 1
    /\ hpc = "done" <=> Len(responses) = 1
    /\ \A i \in 1..Len(responses) :
          /\ responses[i].status \in {200, 400, 500}
          /\ responses[i].status = 200 =>
                 /\ \A x \in Strategies : Succeeded(x)
                 /\ responses[i].mobile.ok /\ responses[i].desktop.ok
                 /\ responses[i].error = ""
          /\ CarriesResults(responses[i]) => responses[i].status = 200
          /\ (\E x \in Strategies : Failed(x)) =>
                 /\ responses[i].status = 500
                 /\ responses[i].error # ""
                 /\ ~CarriesResults(responses[i])

\* One call has succeeded and the other has failed after it, and the
\* request has been answered.
C7_Witness ==
    /\ hpc = "done"
    /\ Succeeded("mobile") /\ Failed("desktop")
    /\ fetchSt["desktop"].reason = "Unexpected token"
    /\ responses[1].status = 500

\* Both calls have succeeded and the request has been answered with 200.
C7_BothSucceeded ==
    /\ hpc = "done"
    /\ \A x \in Strategies : Succeeded(x)
    /\ responses[1].status = 200

-----------------------------------------------------------------------------
(* Claims about handleSubmit *)

\* A step that begins a submission
Submitting == submits' = submits + 1

\* A step that ends a submission whose fetch was made
Settling == cpc = "awaiting" /\ cpc' = "idle"

FailureMessage(r) ==
    CASE r.kind = "network" -> "Failed to fetch"
      [] r.kind = "text" -> "Unexpected token"
      [] r.kind = "json" /\ ~r.ok /\ r.error # "" -> r.error
      [] OTHER -> "Nao foi possivel analisar."

SubmissionAsDocumented ==
    /\ Submitting =>
          /\ result' = NoResult
          /\ ~EmailMatches(email) =>
                 error' = Error("Digite um email valido.") /\ ~loading'
          /\ (EmailMatches(email) /\ ~UrlMatches(url)) =>
                 error' = Error("Digite uma URL valida com http ou https.") /\ ~loading'
          /\ (EmailMatches(email) /\ UrlMatches(url)) =>
                 error' = NoError /\ loading' /\ cpc' = "awaiting"
    /\ Settling =>
          /\ ~loading'
          /\ IF reply'.kind = "json" /\ reply'.ok
             THEN result' = Result(reply'.data) /\ error' = NoError
             ELSE error' = Error(FailureMessage(reply')) /\ result' = NoResult

NeverBoth == ~(error.has /\ result.has)

\* C8: every submission clears the previous error and result; one that fails
\* (invalid email, invalid URL, a response that is not ok, a thrown fetch or
\* parse error) leaves error set to the failure message and result null;
\* one that succeeds leaves result set and error null; error and result are
\* never both non-null, and loading is false once a submission has finished.
C8_ErrorXorResult ==
    /\ [](NeverBoth /\ (cpc = "idle" => ~loading))
    /\ [][SubmissionAsDocumented]_vars

\* A submission has failed after an earlier one succeeded.
C8_Witness ==
    /\ submits >= 2 /\ cpc = "idle"
    /\ reply.kind = "json" /\ ~reply.ok
    /\ error = Error("Falha ao consultar PageSpeed")
    /\ ~result.has

=============================================================================
